---- MODULE Spec2Model ----
(***************************************************************************)
(* A model of volatile.py: the hierarchical trend model (define_model),    *)
(* its staged fit (train), the rating of scores (rate) and the part of    *)
(* the script that builds the time bases and the scores.                  *)
(*                                                                         *)
(* The variable `call` names the entry point a behaviour exercises:       *)
(*   "define_model"  one call of define_model(info, level)                 *)
(*   "train"         one call of train(logp, info, num_steps=...)          *)
(*   "rate"          one call of rate(scores)                              *)
(*   "main"          the script, from info['tt'] to rate(ranked_scores)    *)
(*   "log_prob"      the locations of the priors of one model evaluation   *)
(*   "rank"          the script's handling of the --rank argument          *)
(* Variables of the other entry points keep their initial value.          *)
(*                                                                         *)
(* Real numbers are modelled exactly, as fractions [n, d] with d > 0; the  *)
(* float32 rounding of the code is not modelled.                           *)
(***************************************************************************)
EXTENDS Integers, Sequences, FiniteSets, TLC

VARIABLES
    call, pc,
    \* define_model
    level, m, raised, result,
    \* train
    num_steps, plot_losses, num_steps_l, stage, model, binding, iterations, slots,
    stepsDone, lossDiverged, endVal, startIter, reads, writes, returned, plotted,
    \* rate
    scores, rates,
    \* the script
    t, tt, tt_pred, phi, std_logp_pred, logp_last, logp_pred,
    \* the hierarchy of an evaluation of the model
    sectors, industries, info, priorLoc,
    \* the ranking of the script
    args_rank, no_plots, downloaded, trained, growth, rank, ranked_rates, dont_plot

dmVars == <<level, m, raised, result>>
trainVars == <<num_steps, plot_losses, num_steps_l, stage, model, binding, iterations, slots,
               stepsDone, lossDiverged, endVal, startIter, reads, writes, returned, plotted>>
rateVars == <<scores, rates>>
mainVars == <<t, tt, tt_pred, phi, std_logp_pred, logp_last, logp_pred>>
hierVars == <<sectors, industries, info, priorLoc>>
rankVars == <<args_rank, no_plots, downloaded, trained, growth, rank, ranked_rates, dont_plot>>
vars == <<call, pc, dmVars, trainVars, rateVars, mainVars, hierVars, rankVars>>

----------------------------------------------------------------------------
(* Bounds of the model *)

\* num_steps of train ranges over 1..MaxNumSteps
MaxNumSteps == 10
\* ranking: a score and a growth of a stock are integers in -MaxRank..MaxRank
MaxRank == 1
\* a finite fitted parameter value is one of 0..MaxVal
MaxVal == 1
\* rate: a score is a fraction n/d, n in -MaxNum..MaxNum, d in 1..MaxDen
MaxNum == 7
MaxDen == 2
\* rate: scores has 0..MaxLen entries
MaxLen == 2
\* the script: the series has 1..MaxT time steps
MaxT == 3
\* the script: a fitted polynomial coefficient is one of -MaxPhi..MaxPhi
MaxPhi == 1
\* the script: the last observed log-price is one of -MaxLogp..MaxLogp
MaxLogp == 2
\* the script: softplus(psi) is one of 1..MaxStd
MaxStd == 2
\* the hierarchy: 1..MaxStocks stocks, sector names 1..MaxSectorNames and
\* industry names 1..MaxIndustryNames (a name is modelled by its rank in
\* the sorted list of names)
MaxStocks == 3
MaxSectorNames == 2
MaxIndustryNames == 3

----------------------------------------------------------------------------
(* Exact fractions *)

Rat(n, d) == [n |-> n, d |-> d]
RatInt(i) == Rat(i, 1)
RatAdd(a, b) == Rat(a.n * b.d + b.n * a.d, a.d * b.d)
RatSub(a, b) == Rat(a.n * b.d - b.n * a.d, a.d * b.d)
RatMul(a, b) == Rat(a.n * b.n, a.d * b.d)
\* a / i for an integer i > 0
RatDivInt(a, i) == Rat(a.n, a.d * i)
RatEq(a, b) == a.n * b.d = b.n * a.d
RatLt(a, b) == a.n * b.d < b.n * a.d
\* a > i for an integer i
RatGtInt(a, i) == a.n > i * a.d

RECURSIVE RatPow(_, _)
RatPow(a, k) == IF k = 0 THEN RatInt(1) ELSE RatMul(a, RatPow(a, k - 1))

RECURSIVE RatSum(_, _, _)
\* f[lo] + ... + f[hi]
RatSum(f, lo, hi) == IF lo > hi THEN RatInt(0) ELSE RatAdd(f[lo], RatSum(f, lo + 1, hi))

----------------------------------------------------------------------------
(* define_model *)

\* a list of levels with one name misspelt
available_levels_typo == <<"market", "sector", "industry", "stocks">>

available_levels == <<"market", "sector", "industry", "stock">>

InAvailableLevels(l) == \E i \in 1..Len(available_levels) : available_levels[i] = l

\* A component of the joint distribution: the Normal it is, the parameters of
\* its lambda in the order written, and the parameter its loc and its scale
\* are computed from ("" when they are computed from no parameter).
Layer(name, params, locOp, locArg, scaleOp, scaleArg) ==
    [name |-> name, params |-> params,
     locOp |-> locOp, locArg |-> locArg, scaleOp |-> scaleOp, scaleArg |-> scaleArg]

MarketLayers ==
    << Layer("phi_m", <<>>, "zeros", "", "4*order_scale", ""),
       Layer("psi_m", <<>>, "0", "", "4", "") >>

SectorLayers ==
    << Layer("phi_s", <<"psi_m", "phi_m">>, "repeat", "phi_m", "2*order_scale", ""),
       Layer("psi_s", <<"phi_s", "psi_m">>, "identity", "psi_m", "2*ones", "") >>

\* the industry pair gathered with the stock-to-industry index
IndustryLayersGatherByStock ==
    << Layer("phi_i", <<"psi_s", "phi_s">>, "gather_ind_id", "phi_s", "order_scale", ""),
       Layer("psi_i", <<"phi_i", "psi_s">>, "gather_ind_id", "psi_s", "1", "") >>

IndustryLayers ==
    << Layer("phi_i", <<"psi_s", "phi_s">>, "gather_sec2ind_id", "phi_s", "order_scale", ""),
       Layer("psi_i", <<"phi_i", "psi_s">>, "gather_sec2ind_id", "psi_s", "1", "") >>

StockLayers ==
    << Layer("phi", <<"psi_i", "phi_i">>, "gather_ind_id", "phi_i", "0.5*order_scale", ""),
       Layer("psi", <<"phi", "psi_i">>, "gather_ind_id", "psi_i", "0.5", "") >>

\* the observation lambdas with their two parameters written phi first
ObservationLayersPhiFirst(l) ==
    (IF l = "market"
        THEN << Layer("y", <<"phi_m", "psi_m">>, "tensordot_tt", "phi_m", "softplus", "psi_m") >>
        ELSE <<>>)
    \o (IF l = "sector"
        THEN << Layer("y", <<"phi_s", "psi_s">>, "tensordot_tt", "phi_s", "softplus", "psi_s") >>
        ELSE <<>>)
    \o (IF l = "industry"
        THEN << Layer("y", <<"phi_i", "psi_i">>, "tensordot_tt", "phi_i", "softplus", "psi_i") >>
        ELSE <<>>)
    \o (IF l = "stock"
        THEN << Layer("y", <<"phi", "psi">>, "tensordot_tt", "phi", "softplus", "psi") >>
        ELSE <<>>)

ObservationLayers(l) ==
    (IF l = "market"
        THEN << Layer("y", <<"psi_m", "phi_m">>, "tensordot_tt", "phi_m", "softplus", "psi_m") >>
        ELSE <<>>)
    \o (IF l = "sector"
        THEN << Layer("y", <<"psi_s", "phi_s">>, "tensordot_tt", "phi_s", "softplus", "psi_s") >>
        ELSE <<>>)
    \o (IF l = "industry"
        THEN << Layer("y", <<"psi_i", "phi_i">>, "tensordot_tt", "phi_i", "softplus", "psi_i") >>
        ELSE <<>>)
    \o (IF l = "stock"
        THEN << Layer("y", <<"psi", "phi">>, "tensordot_tt", "phi", "softplus", "psi") >>
        ELSE <<>>)

\* JointDistributionSequential hands a lambda the previous components most
\* recent first: parameter number p of component i is component i - p,
\* whatever the parameter is called.
ParamPosition(params, arg) ==
    IF \E p \in 1..Len(params) : params[p] = arg
        THEN CHOOSE p \in 1..Len(params) : params[p] = arg
        ELSE 0

ResolveOrder(i, p) == i - p

\* the index of the component that parameter `arg` of component i is bound
\* to; 0 when the component uses no parameter there
Resolve(mm, i, arg) ==
    IF ParamPosition(mm[i].params, arg) = 0 THEN 0
    ELSE ResolveOrder(i, ParamPosition(mm[i].params, arg))

LocSource(mm, i) == Resolve(mm, i, mm[i].locArg)
ScaleSource(mm, i) == Resolve(mm, i, mm[i].scaleArg)

\* the list m of define_model just before it is returned
PriorLayers(l) ==
    MarketLayers
    \o (IF l # "market"
        THEN SectorLayers
             \o (IF l # "sector"
                 THEN IndustryLayers \o (IF l # "industry" THEN StockLayers ELSE <<>>)
                 ELSE <<>>)
        ELSE <<>>)

define_model(l) == PriorLayers(l) \o ObservationLayers(l)

\* the level names define_model is called with
LevelArgs == {"market", "sector", "industry", "stock", "Market", "stocks", ""}

NoModel == <<>>

DM_Check ==
    /\ call = "define_model" /\ pc = "dm_check"
    /\ IF ~InAvailableLevels(level)
          THEN /\ raised' = TRUE
               /\ pc' = "dm_raised"
          ELSE /\ raised' = raised
               /\ pc' = "dm_market"
    /\ UNCHANGED <<call, rankVars, hierVars, level, m, result, trainVars, rateVars, mainVars>>

DM_Market ==
    /\ call = "define_model" /\ pc = "dm_market"
    /\ m' = MarketLayers
    /\ pc' = "dm_sector"
    /\ UNCHANGED <<call, rankVars, hierVars, level, raised, result, trainVars, rateVars, mainVars>>

DM_Sector ==
    /\ call = "define_model" /\ pc = "dm_sector"
    /\ IF level # "market"
          THEN /\ m' = m \o SectorLayers
               /\ pc' = "dm_industry"
          ELSE /\ m' = m
               /\ pc' = "dm_observation"
    /\ UNCHANGED <<call, rankVars, hierVars, level, raised, result, trainVars, rateVars, mainVars>>

DM_Industry ==
    /\ call = "define_model" /\ pc = "dm_industry"
    /\ IF level # "sector"
          THEN /\ m' = m \o IndustryLayers
               /\ pc' = "dm_stock"
          ELSE /\ m' = m
               /\ pc' = "dm_observation"
    /\ UNCHANGED <<call, rankVars, hierVars, level, raised, result, trainVars, rateVars, mainVars>>

DM_Stock ==
    /\ call = "define_model" /\ pc = "dm_stock"
    /\ m' = (IF level # "industry" THEN m \o StockLayers ELSE m)
    /\ pc' = "dm_observation"
    /\ UNCHANGED <<call, rankVars, hierVars, level, raised, result, trainVars, rateVars, mainVars>>

DM_Observation ==
    /\ call = "define_model" /\ pc = "dm_observation"
    /\ m' = m \o ObservationLayers(level)
    /\ pc' = "dm_return"
    /\ UNCHANGED <<call, rankVars, hierVars, level, raised, result, trainVars, rateVars, mainVars>>

DM_Return ==
    /\ call = "define_model" /\ pc = "dm_return"
    /\ result' = m
    /\ pc' = "dm_done"
    /\ UNCHANGED <<call, rankVars, hierVars, level, m, raised, trainVars, rateVars, mainVars>>

----------------------------------------------------------------------------
(* train *)

\* the stages with the industry stage written before the sector stage
TrainStagesIndustryFirst == <<"market", "industry", "sector", "stock">>

\* the stages of train, in the order of its text
TrainStages == <<"market", "sector", "industry", "stock">>

Levels == {TrainStages[i] : i \in 1..Len(TrainStages)}

StageIndex(s) == CHOOSE i \in 1..Len(TrainStages) : TrainStages[i] = s

\* the (phi, psi) pair of a level is modelled as one value: a finite one, or
\* NaN once the loss has diverged
FiniteVal(x) == [nan |-> FALSE, v |-> x]
NaNVal == [nan |-> TRUE, v |-> 0]
FiniteVals == {FiniteVal(x) : x \in 0..MaxVal}
zeros_like == FiniteVal(0)

Unbound == [kind |-> "unbound", val |-> zeros_like]

\* tf.Variable(x): a new trainable object holding x
tf_Variable(x) == [kind |-> "Variable", val |-> x]

\* the previous pair handed on as it is, still a trainable variable
KeepVariable(b) == b

\* tf.constant(b): a new immutable tensor holding the value of b
tf_constant(b) == [kind |-> "Constant", val |-> b.val]

\* the objects whose state the stages can share
ParamObj(l, kind) == <<kind, l>>
IterationsObj == <<"optimizer", "iterations">>
\* one pair of moment accumulators for the whole optimizer
OptimizerWideSlot(l) == <<"slot", "optimizer">>

\* Adam keeps its moment accumulators per variable
SlotObj(l) == <<"slot", l>>

\* int(np.ceil(num_steps // 4)): the floor division is taken first
NumStepsL(n) == n \div 4

\* the levels whose (phi, psi) the loss of stage s is given
LossLevels(s) == {TrainStages[i] : i \in 1..StageIndex(s)}

\* the trainable variables the loss of stage s reads: the ones minimize
\* differentiates and the optimizer updates
Watched(s) == {l \in LossLevels(s) : binding[l].kind = "Variable"}

T_Optimizer ==
    /\ call = "train" /\ pc = "t_optimizer"
    /\ iterations' = 0
    /\ slots' = {}
    /\ num_steps_l' = NumStepsL(num_steps)
    /\ stage' = TrainStages[1]
    /\ pc' = "t_define"
    /\ UNCHANGED <<call, rankVars, hierVars, num_steps, plot_losses, model, binding, stepsDone, lossDiverged,
                   endVal, startIter, reads, writes, returned, plotted,
                   dmVars, rateVars, mainVars>>

\* model = define_model(info, <stage>)
T_Define ==
    /\ call = "train" /\ pc = "t_define"
    /\ model' = define_model(stage)
    /\ pc' = (IF StageIndex(stage) = 1 THEN "t_variable" ELSE "t_freeze")
    /\ UNCHANGED <<call, rankVars, hierVars, num_steps, plot_losses, num_steps_l, stage, binding, iterations,
                   slots, stepsDone, lossDiverged, endVal, startIter, reads, writes,
                   returned, plotted, dmVars, rateVars, mainVars>>

\* phi_x, psi_x = tf.constant(phi_x), tf.constant(psi_x) for the previous stage
T_Freeze ==
    /\ call = "train" /\ pc = "t_freeze"
    /\ LET prev == TrainStages[StageIndex(stage) - 1] IN
         /\ binding' = [binding EXCEPT ![prev] = tf_constant(binding[prev])]
         /\ reads' = [reads EXCEPT ![stage] = @ \cup {ParamObj(prev, binding[prev].kind)}]
    /\ pc' = "t_variable"
    /\ UNCHANGED <<call, rankVars, hierVars, num_steps, plot_losses, num_steps_l, stage, model, iterations,
                   slots, stepsDone, lossDiverged, endVal, startIter, writes,
                   returned, plotted, dmVars, rateVars, mainVars>>

\* the pair of stage s started from the values fitted by the stage before it
InitialValueFromPrevious(s) ==
    IF StageIndex(s) > 1 THEN binding[TrainStages[StageIndex(s) - 1]].val ELSE zeros_like

\* tf.zeros_like(model.sample()[a:b][i]): the sample gives the shape only
InitialValue(s) == zeros_like

\* phi_x, psi_x = (tf.Variable(tf.zeros_like(model.sample()[a:b][i])) for i in range(2))
T_Variable ==
    /\ call = "train" /\ pc = "t_variable"
    /\ binding' = [binding EXCEPT ![stage] = tf_Variable(InitialValue(stage))]
    /\ startIter' = [startIter EXCEPT ![stage] = iterations]
    /\ pc' = "t_minimize"
    /\ UNCHANGED <<call, rankVars, hierVars, num_steps, plot_losses, num_steps_l, stage, model, iterations,
                   slots, stepsDone, lossDiverged, endVal, reads, writes,
                   returned, plotted, dmVars, rateVars, mainVars>>

\* one iteration of tfp.math.minimize(loss, optimizer=optimizer, num_steps=num_steps_l):
\* the loss is evaluated on the tensors its names are bound to, and Adam
\* updates the trainable variables among them. A loss that is NaN or Inf is
\* not detected: the gradients and the updated variables are NaN.
T_MinimizeStep ==
    /\ call = "train" /\ pc = "t_minimize"
    /\ stepsDone[stage] < num_steps_l
    /\ \E diverged \in BOOLEAN :
         /\ (\E l \in LossLevels(stage) : binding[l].val.nan) => diverged
         /\ \E nv \in [Watched(stage) -> FiniteVals] :
              binding' = [l \in Levels |->
                            IF l \in Watched(stage)
                               THEN [binding[l] EXCEPT !.val = IF diverged THEN NaNVal ELSE nv[l]]
                               ELSE binding[l]]
         /\ lossDiverged' = [lossDiverged EXCEPT ![stage] = @ \/ diverged]
    /\ iterations' = iterations + 1
    /\ slots' = slots \cup {SlotObj(l) : l \in Watched(stage)}
    /\ stepsDone' = [stepsDone EXCEPT ![stage] = @ + 1]
    /\ reads' = [reads EXCEPT ![stage] =
                    @ \cup {IterationsObj}
                      \cup {ParamObj(l, binding[l].kind) : l \in LossLevels(stage)}
                      \cup {SlotObj(l) : l \in Watched(stage)}]
    /\ writes' = [writes EXCEPT ![stage] =
                    @ \cup {IterationsObj}
                      \cup {ParamObj(l, "Variable") : l \in Watched(stage)}
                      \cup {SlotObj(l) : l \in Watched(stage)}]
    /\ UNCHANGED <<call, rankVars, hierVars, pc, num_steps, plot_losses, num_steps_l, stage, model,
                   endVal, startIter, returned, plotted, dmVars, rateVars, mainVars>>

\* minimize returns after num_steps_l iterations; the next statement follows
T_MinimizeEnd ==
    /\ call = "train" /\ pc = "t_minimize"
    /\ stepsDone[stage] >= num_steps_l
    /\ endVal' = [endVal EXCEPT ![stage] = binding[stage].val]
    /\ IF StageIndex(stage) < Len(TrainStages)
          THEN /\ stage' = TrainStages[StageIndex(stage) + 1]
               /\ pc' = "t_define"
          ELSE /\ stage' = stage
               /\ pc' = "t_plot"
    /\ UNCHANGED <<call, rankVars, hierVars, num_steps, plot_losses, num_steps_l, model, binding, iterations,
                   slots, stepsDone, lossDiverged, startIter, reads, writes,
                   returned, plotted, dmVars, rateVars, mainVars>>

\* if plot_losses: ... fig.savefig(...)
T_Plot ==
    /\ call = "train" /\ pc = "t_plot"
    /\ plotted' = plot_losses
    /\ pc' = "t_return"
    /\ UNCHANGED <<call, rankVars, hierVars, num_steps, plot_losses, num_steps_l, stage, model, binding,
                   iterations, slots, stepsDone, lossDiverged, endVal, startIter,
                   reads, writes, returned, dmVars, rateVars, mainVars>>

\* return phi_m, psi_m, phi_s, psi_s, phi_i, psi_i, phi, psi
T_Return ==
    /\ call = "train" /\ pc = "t_return"
    /\ returned' = [i \in 1..Len(TrainStages) |-> binding[TrainStages[i]]]
    /\ pc' = "t_done"
    /\ UNCHANGED <<call, rankVars, hierVars, num_steps, plot_losses, num_steps_l, stage, model, binding,
                   iterations, slots, stepsDone, lossDiverged, endVal, startIter,
                   reads, writes, plotted, dmVars, rateVars, mainVars>>

----------------------------------------------------------------------------
(* rate *)

\* the thresholds rate uses when it is given none
DefaultThresholds ==
    [l \in {"HIGHLY BELOW TREND", "BELOW TREND", "ALONG TREND", "ABOVE TREND",
            "HIGHLY ABOVE TREND"} |->
        CASE l = "HIGHLY BELOW TREND" -> 3
          [] l = "BELOW TREND" -> 2
          [] l = "ALONG TREND" -> 0
          [] l = "ABOVE TREND" -> -2
          [] l = "HIGHLY ABOVE TREND" -> -3]

\* scores[i] >= thresholds[label]
ReachesOrExceeds(score, thresholds, label) == score.n >= thresholds[label] * score.d

\* scores[i] > thresholds[label]
Exceeds(score, thresholds, label) == RatGtInt(score, thresholds[label])

\* the body of the loop of rate, for one score
RateOne(score, thresholds) ==
    IF Exceeds(score, thresholds, "HIGHLY BELOW TREND") THEN "HIGHLY BELOW TREND"
    ELSE IF Exceeds(score, thresholds, "BELOW TREND") THEN "BELOW TREND"
    ELSE IF Exceeds(score, thresholds, "ALONG TREND") THEN "ALONG TREND"
    ELSE IF Exceeds(score, thresholds, "ABOVE TREND") THEN "ABOVE TREND"
    ELSE "HIGHLY ABOVE TREND"

\* rate(scores), thresholds being None at every call of the script
rate(sc) == [i \in 1..Len(sc) |-> RateOne(sc[i], DefaultThresholds)]

ScoreInputs == {Rat(n, d) : n \in -MaxNum..MaxNum, d \in 1..MaxDen}

ScoreLists == UNION {[1..k -> ScoreInputs] : k \in 0..MaxLen}

NotRated == <<"not rated">>

R_Rate ==
    /\ call = "rate" /\ pc = "r_call"
    /\ rates' = rate(scores)
    /\ pc' = "r_done"
    /\ UNCHANGED <<call, rankVars, hierVars, scores, dmVars, trainVars, mainVars>>

----------------------------------------------------------------------------
(* the script *)

\* how many days to look ahead
horizon == 5
\* order of the polynomial
order == 2

\* np.linspace(start, stop, num)[i], i in 0..num-1: start + i * step with
\* step = (stop - start) / (num - 1), and start alone when num is 1
linspace(start, stop, num, i) ==
    IF num = 1 THEN start
    ELSE RatAdd(start, RatMul(RatInt(i), RatDivInt(RatSub(stop, start), num - 1)))

\* info['tt'] = np.linspace(1 / t, 1, t) ** np.arange(order + 1).reshape(-1, 1):
\* rows 0..order, columns 0..t-1
info_tt(tl) ==
    [k \in 0..order |->
        [c \in 0..(tl - 1) |-> RatPow(linspace(Rat(1, tl), RatInt(1), tl, c), k)]]

\* the base of column j of tt_pred: 1 + j / t
PredBase(tl, j) == RatAdd(RatInt(1), Rat(j, tl))

\* the columns np.arange(1, 1 + horizon)
FuturePredColumns == 1..horizon

\* the columns of tt_pred: np.arange(1 + horizon)
PredColumns == 0..((1 + horizon) - 1)

\* tt_pred = (1 + (np.arange(1 + horizon) / t)) ** np.arange(order + 1).reshape(-1, 1)
TTPred(tl) ==
    [k \in 0..order |-> [j \in PredColumns |-> RatPow(PredBase(tl, j), k)]]

\* np.dot(phi, tt)[i, c] for the row phi of one stock
Dot(ph, basis) ==
    [c \in DOMAIN basis[0] |->
        RatSum([k \in 0..order |-> RatMul(RatInt(ph[k]), basis[k][c])], 0, order)]

\* the column of logp_pred the score reads: logp_pred[:, horizon]
ScoreColumn == horizon

\* (logp[:, -1] - logp_pred[:, horizon]) / std_logp_pred.squeeze(), one stock
ScoreLastMinusPred(pred, last, std) == RatDivInt(RatSub(RatInt(last), pred[horizon]), std)

\* (logp_pred[:, horizon] - logp[:, -1]) / std_logp_pred.squeeze(), one stock
Score(pred, last, std) == RatDivInt(RatSub(pred[ScoreColumn], RatInt(last)), std)

NoBasis == <<>>

\* info['tt'] = ...
M_TT ==
    /\ call = "main" /\ pc = "m_tt"
    /\ tt' = info_tt(t)
    /\ pc' = "m_train"
    /\ UNCHANGED <<call, rankVars, hierVars, t, tt_pred, phi, std_logp_pred, logp_last, logp_pred,
                   dmVars, trainVars, rateVars>>

\* phi_m, ..., phi, psi = train(logp, info, ...): the fitted stock-level
\* coefficients are whatever the fit produced
M_Train ==
    /\ call = "main" /\ pc = "m_train"
    /\ phi' \in [0..order -> -MaxPhi..MaxPhi]
    /\ pc' = "m_pred"
    /\ UNCHANGED <<call, rankVars, hierVars, t, tt, tt_pred, std_logp_pred, logp_last, logp_pred,
                   dmVars, trainVars, rateVars>>

\* tt_pred = ...; logp_pred, std_logp_pred = estimate_logprice_statistics(phi, psi, tt_pred)
\* softplus(psi) is a positive number
M_Pred ==
    /\ call = "main" /\ pc = "m_pred"
    /\ tt_pred' = TTPred(t)
    /\ logp_pred' = Dot(phi, TTPred(t))
    /\ std_logp_pred' \in 1..MaxStd
    /\ pc' = "m_scores"
    /\ UNCHANGED <<call, rankVars, hierVars, t, tt, phi, logp_last, dmVars, trainVars, rateVars>>

\* scores = (logp_pred[:, horizon] - logp[:, -1]) / std_logp_pred.squeeze()
M_Scores ==
    /\ call = "main" /\ pc = "m_scores"
    /\ scores' = << Score(logp_pred, logp_last, std_logp_pred) >>
    /\ pc' = "m_rate"
    /\ UNCHANGED <<call, rankVars, hierVars, rates, dmVars, trainVars, mainVars>>

\* ranked_rates = rate(ranked_scores), one stock
M_Rate ==
    /\ call = "main" /\ pc = "m_rate"
    /\ rates' = rate(scores)
    /\ pc' = "m_done"
    /\ UNCHANGED <<call, rankVars, hierVars, scores, dmVars, trainVars, mainVars>>

----------------------------------------------------------------------------
(* The hierarchy index and the prior means of the model *)

\* the taxonomies extract_hierarchical_info is given: a sector name and an
\* industry name for each stock, an industry lying in one sector
Taxonomies ==
    UNION {
        { tx \in [sectors : [0..(n - 1) -> 1..MaxSectorNames],
                  industries : [0..(n - 1) -> 1..MaxIndustryNames]] :
              \A i \in 0..(n - 1), j \in 0..(n - 1) :
                  tx.industries[i] = tx.industries[j] => tx.sectors[i] = tx.sectors[j] }
        : n \in 1..MaxStocks }

\* the index of a name in the sorted list of the names in use
IndexOf(name, used) == Cardinality({u \in used : u < name})

\* the name with the given index
NameAt(idx, used) == CHOOSE u \in used : IndexOf(u, used) = idx

Range(f) == {f[x] : x \in DOMAIN f}

\* extract_hierarchical_info(sectors, industries): the Hierarchy Index
extract_hierarchical_info(sec, ind) ==
    LET usectors == Range(sec)
        uindustries == Range(ind)
        sectors_id == [i \in DOMAIN sec |-> IndexOf(sec[i], usectors)]
    IN  [ num_sectors |-> Cardinality(usectors),
          num_industries |-> Cardinality(uindustries),
          sectors_id |-> sectors_id,
          industries_id |-> [i \in DOMAIN ind |-> IndexOf(ind[i], uindustries)],
          sector_industries_id |->
              [j \in 0..(Cardinality(uindustries) - 1) |->
                  sectors_id[CHOOSE i \in DOMAIN ind : ind[i] = NameAt(j, uindustries)]] ]

NoInfo == <<>>
NoLoc == <<>>

\* a row of a tensor: the component it belongs to and its row number
Row(name, r) == <<name, r>>

\* tf.gather(params, indices, axis=0): row j is row indices[j] of params
tf_gather(name, indices) == [j \in DOMAIN indices |-> Row(name, indices[j])]

\* tf.repeat(x, repeats, axis=0) of a tensor of one row
tf_repeat(name, repeats) == [j \in 0..(repeats - 1) |-> Row(name, 0)]

\* the number of rows of the component called name
NumRows(name, inf) ==
    CASE name \in {"phi_m", "psi_m"} -> 1
      [] name \in {"phi_s", "psi_s"} -> inf.num_sectors
      [] name \in {"phi_i", "psi_i"} -> inf.num_industries
      [] OTHER -> Cardinality(DOMAIN inf.industries_id)

\* loc= of component i of the model mm, row by row, as the rows of the value
\* of the component its lambda parameter is bound to
LocRows(mm, i, inf) ==
    LET op == mm[i].locOp
        src == IF LocSource(mm, i) = 0 THEN "0" ELSE mm[LocSource(mm, i)].name
    IN  CASE op = "repeat" -> tf_repeat(src, inf.num_sectors)
          [] op = "identity" -> tf_repeat(src, inf.num_sectors)
          [] op = "gather_sec2ind_id" -> tf_gather(src, inf.sector_industries_id)
          [] op = "gather_ind_id" -> tf_gather(src, inf.industries_id)
          [] op = "tensordot_tt" -> [r \in 0..(NumRows(src, inf) - 1) |-> Row(src, r)]
          [] OTHER -> [r \in 0..0 |-> Row("0", 0)]

\* info = extract_hierarchical_info(data['sectors'], data['industries'])
H_Extract ==
    /\ call = "log_prob" /\ pc = "h_extract"
    /\ info' = extract_hierarchical_info(sectors, industries)
    /\ pc' = "h_define"
    /\ UNCHANGED <<call, rankVars, sectors, industries, priorLoc,
                   dmVars, trainVars, rateVars, mainVars>>

\* model = define_model(info, level)
H_Define ==
    /\ call = "log_prob" /\ pc = "h_define"
    /\ m' = define_model(level)
    /\ pc' = "h_loc"
    /\ UNCHANGED <<call, rankVars, hierVars, level, raised, result,
                   trainVars, rateVars, mainVars>>

\* model.log_prob([...]): the mean of every component is computed from the
\* values given for the components before it
H_Loc ==
    /\ call = "log_prob" /\ pc = "h_loc"
    /\ priorLoc' = [i \in 1..Len(m) |-> LocRows(m, i, info)]
    /\ pc' = "h_done"
    /\ UNCHANGED <<call, rankVars, sectors, industries, info,
                   dmVars, trainVars, rateVars, mainVars>>

----------------------------------------------------------------------------
(* the script: the --rank argument *)

\* a string is modelled as the sequence of its characters
Upper == <<"A", "B", "C", "D", "E", "F", "G", "H", "I", "J", "K", "L", "M",
           "N", "O", "P", "Q", "R", "S", "T", "U", "V", "W", "X", "Y", "Z">>
Lowercase == <<"a", "b", "c", "d", "e", "f", "g", "h", "i", "j", "k", "l", "m",
               "n", "o", "p", "q", "r", "s", "t", "u", "v", "w", "x", "y", "z">>

LowerChar(c) ==
    IF \E k \in 1..Len(Upper) : Upper[k] = c
       THEN Lowercase[CHOOSE k \in 1..Len(Upper) : Upper[k] = c]
       ELSE c

\* str.lower()
lower(str) == [k \in 1..Len(str) |-> LowerChar(str[k])]

str_rate == <<"r", "a", "t", "e">>
str_growth == <<"g", "r", "o", "w", "t", "h">>

\* the values of --rank exercised; "rate" is the default of the argument
RankArgs ==
    { str_rate, <<"R", "a", "t", "e">>, <<"R", "A", "T", "E">>,
      str_growth, <<"G", "r", "o", "w", "t", "h">>,
      <<"s", "c", "o", "r", "e">>, <<>> }

\* the stocks of the ranking (positions of tickers, from 1)
Stocks == 1..MaxLen

RankValues == -MaxRank..MaxRank

\* the orders np.argsort(x)[::-1] can give: every descending order of x (the
\* order of equal values is left to the sort)
argsort_reversed(x) ==
    { p \in [DOMAIN x -> DOMAIN x] :
        /\ \A i, j \in DOMAIN x : i # j => p[i] # p[j]
        /\ \A i, j \in DOMAIN x : i < j => x[p[i]].n * x[p[j]].d >= x[p[j]].n * x[p[i]].d }

\* args.rank == "rate"
IsRate(str) == str = str_rate

\* x[rank]
Take(x, p) == [i \in DOMAIN p |-> x[p[i]]]

\* if args.rank.lower() not in ["rate", "growth"]: raise Exception(...)
K_Validate ==
    /\ call = "rank" /\ pc = "k_validate"
    /\ IF lower(args_rank) \notin {str_rate, str_growth}
          THEN raised' = TRUE /\ pc' = "k_raised"
          ELSE raised' = raised /\ pc' = "k_download"
    /\ UNCHANGED <<call, rankVars, hierVars, level, m, result, trainVars, rateVars, mainVars>>

\* data = download(args.symbols)
K_Download ==
    /\ call = "rank" /\ pc = "k_download"
    /\ downloaded' = TRUE
    /\ pc' = "k_train"
    /\ UNCHANGED <<call, args_rank, no_plots, trained, growth, rank, ranked_rates, dont_plot,
                   hierVars, dmVars, trainVars, rateVars, mainVars>>

\* phi_m, ..., psi = train(logp, info, ...); scores = ...; growth = ...:
\* the fit gives each stock some score and some growth
K_Train ==
    /\ call = "rank" /\ pc = "k_train"
    /\ trained' = TRUE
    /\ \E sc \in [Stocks -> RankValues] : scores' = [i \in Stocks |-> RatInt(sc[i])]
    /\ \E gr \in [Stocks -> RankValues] : growth' = [i \in Stocks |-> RatInt(gr[i])]
    /\ pc' = "k_rank"
    /\ UNCHANGED <<call, args_rank, no_plots, downloaded, rank, ranked_rates, dont_plot,
                   hierVars, dmVars, trainVars, rates, mainVars>>

\* rank = np.argsort(scores)[::-1] if args.rank == "rate" else np.argsort(growth)[::-1]
\* ranked_scores = scores[rank]; ranked_rates = rate(ranked_scores)
K_Rank ==
    /\ call = "rank" /\ pc = "k_rank"
    /\ \E p \in (IF IsRate(args_rank) THEN argsort_reversed(scores)
                                      ELSE argsort_reversed(growth)) :
         /\ rank' = p
         /\ ranked_rates' = rate(Take(scores, p))
    /\ pc' = "k_dont_plot"
    /\ UNCHANGED <<call, args_rank, no_plots, downloaded, trained, growth, dont_plot,
                   hierVars, dmVars, trainVars, rateVars, mainVars>>

\* if not args.no_plots: ...
\*     if args.rank == "rate": dont_plot = np.where(ranked_rates == "ALONG TREND")[0]
\*     else: dont_plot = np.where(ranked_rates != "ALONG TREND")[0]
K_DontPlot ==
    /\ call = "rank" /\ pc = "k_dont_plot"
    /\ dont_plot' =
         (IF no_plots THEN dont_plot
          ELSE IF IsRate(args_rank)
                  THEN {i \in DOMAIN ranked_rates : ranked_rates[i] = "ALONG TREND"}
                  ELSE {i \in DOMAIN ranked_rates : ranked_rates[i] # "ALONG TREND"})
    /\ pc' = "k_done"
    /\ UNCHANGED <<call, args_rank, no_plots, downloaded, trained, growth, rank, ranked_rates,
                   hierVars, dmVars, trainVars, rateVars, mainVars>>

----------------------------------------------------------------------------
(* The specification *)

\* the entry points
Calls == {"define_model", "train", "rate", "main", "log_prob", "rank"}

FirstPc(c) ==
    CASE c = "define_model" -> "dm_check"
      [] c = "train" -> "t_optimizer"
      [] c = "rate" -> "r_call"
      [] c = "main" -> "m_tt"
      [] c = "log_prob" -> "h_extract"
      [] c = "rank" -> "k_validate"

\* The arguments of the entry point are drawn from the bounded sets; every
\* other variable starts as it is before the call.
Init ==
    /\ call \in Calls
    /\ pc = FirstPc(call)
    \* define_model(info, level)
    /\ level \in (IF call = "define_model" THEN LevelArgs
                  ELSE IF call = "log_prob" THEN {"sector", "industry", "stock"}
                  ELSE {"stock"})
    /\ m = <<>> /\ raised = FALSE /\ result = NoModel
    \* train(logp, info, num_steps, plot_losses)
    /\ num_steps \in (IF call = "train" THEN 1..MaxNumSteps ELSE {0})
    /\ plot_losses \in (IF call = "train" THEN BOOLEAN ELSE {FALSE})
    /\ num_steps_l = 0
    /\ stage = TrainStages[1] /\ model = NoModel
    /\ binding = [l \in Levels |-> Unbound]
    /\ iterations = 0 /\ slots = {}
    /\ stepsDone = [l \in Levels |-> 0]
    /\ lossDiverged = [l \in Levels |-> FALSE]
    /\ endVal = [l \in Levels |-> zeros_like]
    /\ startIter = [l \in Levels |-> 0]
    /\ reads = [l \in Levels |-> {}]
    /\ writes = [l \in Levels |-> {}]
    /\ returned = <<>> /\ plotted = FALSE
    \* rate(scores)
    /\ scores \in (IF call = "rate" THEN ScoreLists ELSE {<<>>})
    /\ rates = NotRated
    \* the script: num_stocks, t = logp.shape, with one stock
    /\ t \in (IF call = "main" THEN 1..MaxT ELSE {1})
    /\ logp_last \in (IF call = "main" THEN -MaxLogp..MaxLogp ELSE {0})
    /\ tt = NoBasis /\ tt_pred = NoBasis
    /\ phi = [k \in 0..order |-> 0]
    /\ std_logp_pred = 1 /\ logp_pred = NoBasis
    \* the taxonomy of the stocks
    /\ \E tx \in (IF call = "log_prob" THEN Taxonomies
                  ELSE {[sectors |-> <<>>, industries |-> <<>>]}) :
          sectors = tx.sectors /\ industries = tx.industries
    /\ info = NoInfo /\ priorLoc = NoLoc
    \* args = cli.parse_args()
    /\ args_rank \in (IF call = "rank" THEN RankArgs ELSE {str_rate})
    /\ no_plots \in (IF call = "rank" THEN BOOLEAN ELSE {FALSE})
    /\ downloaded = FALSE /\ trained = FALSE
    /\ growth = <<>> /\ rank = <<>>
    /\ ranked_rates = NotRated /\ dont_plot = {}

Next ==
    \/ DM_Check \/ DM_Market \/ DM_Sector \/ DM_Industry \/ DM_Stock
    \/ DM_Observation \/ DM_Return
    \/ T_Optimizer \/ T_Define \/ T_Freeze \/ T_Variable
    \/ T_MinimizeStep \/ T_MinimizeEnd \/ T_Plot \/ T_Return
    \/ R_Rate
    \/ M_TT \/ M_Train \/ M_Pred \/ M_Scores \/ M_Rate
    \/ H_Extract \/ H_Define \/ H_Loc
    \/ K_Validate \/ K_Download \/ K_Train \/ K_Rank \/ K_DontPlot

Spec == Init /\ [][Next]_vars

----------------------------------------------------------------------------
(* C1: rate *)

\* the bin of a score, stated by intervals
InBin(s, label) ==
    CASE label = "HIGHLY BELOW TREND" -> RatGtInt(s, 3)
      [] label = "BELOW TREND" -> RatGtInt(s, 2) /\ ~RatGtInt(s, 3)
      [] label = "ALONG TREND" -> RatGtInt(s, 0) /\ ~RatGtInt(s, 2)
      [] label = "ABOVE TREND" -> RatGtInt(s, -2) /\ ~RatGtInt(s, 0)
      [] label = "HIGHLY ABOVE TREND" -> ~RatGtInt(s, -2)
      [] OTHER -> FALSE

Rated == pc \in {"r_done", "m_done"}

\* C1: with the default thresholds rate gives every score the label of its
\* bin: above 3 "HIGHLY BELOW TREND", in (2, 3] "BELOW TREND", in (0, 2]
\* "ALONG TREND", in (-2, 0] "ABOVE TREND", at most -2 "HIGHLY ABOVE TREND";
\* so a score equal to a threshold gets the label of the next lower bin, and
\* 7/2, 5/2, 0 and -5/2 are rated as the spec's examples say.
C1_RateBins ==
    Rated =>
        /\ Len(rates) = Len(scores)
        /\ \A i \in 1..Len(scores) :
              /\ InBin(scores[i], rates[i])
              /\ (scores[i] = Rat(7, 2) => rates[i] = "HIGHLY BELOW TREND")
              /\ (scores[i] = Rat(5, 2) => rates[i] = "BELOW TREND")
              /\ (scores[i] = Rat(0, 1) => rates[i] = "ABOVE TREND")
              /\ (scores[i] = Rat(-5, 2) => rates[i] = "HIGHLY ABOVE TREND")
              /\ (scores[i] = Rat(3, 1) => rates[i] = "BELOW TREND")
              /\ (scores[i] = Rat(2, 1) => rates[i] = "ALONG TREND")
              /\ (scores[i] = Rat(-2, 1) => rates[i] = "HIGHLY ABOVE TREND")

\* rate([0, -2.5]) has returned ["ABOVE TREND", "HIGHLY ABOVE TREND"]
C1_Witness ==
    /\ call = "rate" /\ pc = "r_done"
    /\ scores = << Rat(0, 1), Rat(-5, 2) >>
    /\ rates = << "ABOVE TREND", "HIGHLY ABOVE TREND" >>

----------------------------------------------------------------------------
(* C2 - C5, C8: train *)

\* the order the spec gives the stages
StagePairs == { <<"market", "sector">>, <<"sector", "industry">>, <<"industry", "stock">> }
StageBefore == StagePairs \cup { <<"market", "industry">>, <<"market", "stock">>,
                                 <<"sector", "stock">> }
StageRank(s) ==
    CASE s = "market" -> 1 [] s = "sector" -> 2 [] s = "industry" -> 3 [] s = "stock" -> 4

\* the optimization of stage s has started, is running, has finished
OptStarted(s) == stepsDone[s] > 0 \/ (pc = "t_minimize" /\ stage = s)
OptRunning(s) == pc = "t_minimize" /\ stage = s
OptFinished(s) ==
    /\ binding[s].kind # "unbound"
    /\ stepsDone[s] = num_steps_l
    /\ ~OptRunning(s)

\* C2: the optimizations run in the order market, sector, industry, stock
\* and never overlap: one starts only when the one before has finished and
\* its parameters are frozen, and train returns only after the stock stage.
C2_StagesInOrder ==
    call = "train" =>
        /\ \A p \in StagePairs :
              OptStarted(p[2]) => OptFinished(p[1]) /\ binding[p[1]].kind = "Constant"
        /\ \A a \in Levels, b \in Levels : (OptRunning(a) /\ OptRunning(b)) => a = b
        /\ returned # <<>> =>
              /\ \A s \in Levels : OptFinished(s)
              /\ Len(returned) = 4
              /\ pc = "t_done"

\* a run with two iterations per stage has returned
C2_Witness ==
    /\ call = "train" /\ pc = "t_done"
    /\ num_steps_l = 2
    /\ \A s \in Levels : stepsDone[s] = 2
    /\ returned # <<>>

\* C3: once the optimization of a stage has finished its pair keeps the
\* value it had then, through every later stage and in the returned tuple;
\* the iterations of a stage change the pair of that stage alone (the pair
\* of a stage that has not begun is still unbound).
C3_FrozenNeverMutated ==
    call = "train" =>
        /\ \A s \in Levels :
              /\ (OptFinished(s) /\ pc # "t_optimizer") => binding[s].val = endVal[s]
              /\ (StageRank(s) > StageRank(stage)) => binding[s] = Unbound
        /\ returned # <<>> =>
              \A s \in Levels : returned[StageRank(s)].val = endVal[s]

\* the market pair was fitted to 1, and the three later stages then moved
\* their own pairs
C3_Witness ==
    /\ call = "train" /\ pc = "t_done"
    /\ num_steps_l >= 1
    /\ endVal["market"] = FiniteVal(1)
    /\ returned[1].val = FiniteVal(1)
    /\ \A s \in {"sector", "industry", "stock"} : stepsDone[s] >= 1
    /\ returned[2].val = FiniteVal(0)
    /\ returned[4].val = FiniteVal(1)

CeilQuarter(n) == (n + 3) \div 4

\* C4: each of the four stages runs exactly ceil(num_steps / 4) iterations.
C4_CeilIterations ==
    (call = "train" /\ pc = "t_done") =>
        \A s \in Levels : stepsDone[s] = CeilQuarter(num_steps)

\* the state that the optimization of stage k changed and stage j reads or changes
SharedState(k, j) == writes[k] \cap (reads[j] \cup writes[j])

\* the fitted pair of stage k, read once when it is frozen
HandOff(k) == { <<"Variable", k>> }

\* C5 as claimed: nothing the optimization of a stage changed is read or
\* changed by a later stage, the fitted pair it hands over apart.
C5_NoSharedState ==
    call = "train" =>
        \A p \in StageBefore :
            /\ SharedState(p[1], p[2]) \subseteq HandOff(p[1])
            /\ writes[p[2]] \cap HandOff(p[1]) = {}

\* C5 amended: the only state the optimization of a stage changed that a
\* later stage reads or changes, the fitted pair handed over apart, is the
\* step counter of the one Adam optimizer, which runs on from stage to stage
\* (stage number r begins at (r - 1) * num_steps_l); the moment accumulators
\* and the trainable pair of a stage are touched by that stage alone.
C5_OnlyStepCounterShared ==
    call = "train" =>
        /\ \A p \in StageBefore :
              /\ SharedState(p[1], p[2]) \subseteq (HandOff(p[1]) \cup { <<"optimizer", "iterations">> })
              /\ writes[p[2]] \cap HandOff(p[1]) = {}
        /\ \A s \in Levels :
              OptStarted(s) => startIter[s] = (StageRank(s) - 1) * num_steps_l
        /\ \A s \in Levels :
              stepsDone[s] > 0 => <<"optimizer", "iterations">> \in writes[s] \cap reads[s]

\* the sector stage has read and advanced the counter the market stage advanced
C5_Witness ==
    /\ call = "train" /\ pc = "t_done"
    /\ num_steps_l = 2
    /\ <<"optimizer", "iterations">> \in SharedState("market", "sector")
    /\ startIter["stock"] = 6
    /\ iterations = 8

\* C8: when the loss of a stage has diverged no later stage runs and train
\* returns nothing.
C8_FailsOutright ==
    call = "train" =>
        \A s \in Levels :
            lossDiverged[s] =>
                /\ \A p \in StageBefore :
                      p[1] = s => (stepsDone[p[2]] = 0 /\ binding[p[2]].kind = "unbound")
                /\ returned = <<>>

----------------------------------------------------------------------------
(* C6, C7: define_model *)

FourLevels == {"market", "sector", "industry", "stock"}

\* C6: with a level that is none of the four names define_model raises
\* before it has built any component and returns no model; with one of the
\* four names it does not raise.
C6_UnknownLevelRaisesFirst ==
    call = "define_model" =>
        /\ level \notin FourLevels =>
              /\ m = <<>>
              /\ result = NoModel
              /\ pc \in {"dm_check", "dm_raised"}
              /\ (pc = "dm_raised" <=> raised)
        /\ level \in FourLevels => (~raised /\ pc # "dm_raised")

C6_Witness ==
    /\ call = "define_model" /\ pc = "dm_raised"
    /\ level = "Market"
    /\ raised /\ m = <<>> /\ result = NoModel

PhiNames == <<"phi_m", "phi_s", "phi_i", "phi">>
PsiNames == <<"psi_m", "psi_s", "psi_i", "psi">>

\* the model of level l: the pairs of market..l in order, then the one
\* observation, whose mean is computed from the phi of l and whose scale from
\* the psi of l
ModelOfLevel(mdl, l) ==
    LET r == StageRank(l) IN
        /\ Len(mdl) = 2 * r + 1
        /\ \A i \in 1..r : mdl[2 * i - 1].name = PhiNames[i] /\ mdl[2 * i].name = PsiNames[i]
        /\ mdl[2 * r + 1].name = "y"
        /\ mdl[2 * r + 1].locOp = "tensordot_tt"
        /\ mdl[2 * r + 1].scaleOp = "softplus"
        /\ LocSource(mdl, 2 * r + 1) = 2 * r - 1
        /\ ScaleSource(mdl, 2 * r + 1) = 2 * r
        /\ \A i \in 1..(2 * r) : mdl[i].name # "y" /\ mdl[i].locOp # "tensordot_tt"

\* C7: the model define_model returns for a level is the model of that
\* level: 3 components for market, 5 for sector, 7 for industry, 9 for
\* stock, and no observation of another level; so is every model train builds.
C7_ModelOfRequestedLevel ==
    /\ (call = "define_model" /\ pc = "dm_done") =>
          /\ ModelOfLevel(result, level)
          /\ Len(result) = (CASE level = "market" -> 3 [] level = "sector" -> 5
                              [] level = "industry" -> 7 [] level = "stock" -> 9)
    /\ (call = "train" /\ model # NoModel /\ pc # "t_define") => ModelOfLevel(model, stage)

C7_Witness ==
    /\ call = "define_model" /\ pc = "dm_done"
    /\ level = "sector"
    /\ Len(result) = 5
    /\ result[5].name = "y" /\ result[3].name = "phi_s"
    /\ LocSource(result, 5) = 3

----------------------------------------------------------------------------
(* C9, C10: the scores and the time bases of the script *)

Scored == call = "main" /\ pc \in {"m_rate", "m_done"}

\* the predicted log-price at the horizon, and the sign of a fraction
PredAtHorizon == logp_pred[horizon]
Positive(a) == a.n > 0
Negative(a) == a.n < 0
PredBelowLast == RatLt(PredAtHorizon, RatInt(logp_last))
PredAboveLast == RatLt(RatInt(logp_last), PredAtHorizon)

BelowLabels == {"BELOW TREND", "HIGHLY BELOW TREND"}

\* C9 as claimed: a positive score means the prediction at the horizon is
\* below the last observed log-price and a negative score that it is above;
\* a stock whose price is above its predicted trend is never rated "BELOW
\* TREND" or "HIGHLY BELOW TREND".
C9_PositiveMeansPredBelow ==
    Scored =>
        /\ Positive(scores[1]) => PredBelowLast
        /\ Negative(scores[1]) => PredAboveLast
        /\ (pc = "m_done" /\ PredBelowLast) => rates[1] \notin BelowLabels

\* C9 amended: a positive score means the prediction at the horizon is above
\* the last observed log-price (the price is below its trend) and a negative
\* score that it is below; a stock whose price is above its predicted trend
\* is never rated "BELOW TREND" or "HIGHLY BELOW TREND".
C9_PositiveMeansPredAbove ==
    Scored =>
        /\ Positive(scores[1]) <=> PredAboveLast
        /\ Negative(scores[1]) <=> PredBelowLast
        /\ (pc = "m_done" /\ PredBelowLast) => rates[1] \notin BelowLabels

\* a prediction above the last observation has got a score above 3 and the
\* rate "HIGHLY BELOW TREND"
C9_Witness ==
    /\ call = "main" /\ pc = "m_done"
    /\ PredAboveLast
    /\ Positive(scores[1])
    /\ rates = << "HIGHLY BELOW TREND" >>

RECURSIVE IntPow(_, _)
IntPow(b, k) == IF k = 0 THEN 1 ELSE b * IntPow(b, k - 1)

\* (a / b) ^ k
PowerOf(a, b, k) == Rat(IntPow(a, k), IntPow(b, k))

\* sum over k of phi[k] * ((t + j) / t) ^ k: the trend at offset t + j
RECURSIVE TrendAt(_, _)
TrendAt(j, k) ==
    IF k < 0 THEN RatInt(0)
    ELSE RatAdd(RatMul(RatInt(phi[k]), PowerOf(t + j, t, k)), TrendAt(j, k - 1))

BasesBuilt == call = "main" /\ pc \in {"m_scores", "m_rate", "m_done"}

\* tt: one column per observed step 1..t, row k of the column of step c
\* holding (c / t) ^ k
TTIsObservedBasis ==
    /\ DOMAIN tt = 0..order
    /\ \A k \in 0..order :
          /\ DOMAIN tt[k] = 0..(t - 1)
          /\ \A c \in 0..(t - 1) : RatEq(tt[k][c], PowerOf(c + 1, t, k))

\* the score reads the column of offset t + horizon
ScoreAtHorizon ==
    pc \in {"m_rate", "m_done"} =>
        RatEq(RatAdd(RatMul(scores[1], RatInt(std_logp_pred)), RatInt(logp_last)),
              TrendAt(horizon, order))

\* C10 as claimed: tt_pred has horizon columns, for the offsets t + 1 ..
\* t + horizon, none of them at an observed step, row k of the column of
\* offset t + j holding ((t + j) / t) ^ k; tt is normalised by t in the same
\* way; the score reads the column of offset t + horizon.
C10_HorizonFutureColumns ==
    BasesBuilt =>
        /\ TTIsObservedBasis
        /\ DOMAIN tt_pred = 0..order
        /\ \A k \in 0..order :
              /\ Cardinality(DOMAIN tt_pred[k]) = horizon
              /\ \E first \in DOMAIN tt_pred[k] :
                    /\ DOMAIN tt_pred[k] = first..(first + horizon - 1)
                    /\ \A j \in 1..horizon :
                          RatEq(tt_pred[k][first + j - 1], PowerOf(t + j, t, k))
        /\ \A c \in DOMAIN tt_pred[1] : RatLt(RatInt(1), tt_pred[1][c])
        /\ ScoreAtHorizon

\* C10 amended: tt_pred has horizon + 1 columns, for the offsets t + 0 ..
\* t + horizon: column j (from 0) holds ((t + j) / t) ^ k in row k, so its
\* first column is the last observed step t, equal to the last column of tt,
\* and its other columns are future steps; tt is normalised by t in the same
\* way; the score reads column horizon, the one of offset t + horizon.
C10_HorizonPlusOneColumns ==
    BasesBuilt =>
        /\ TTIsObservedBasis
        /\ DOMAIN tt_pred = 0..order
        /\ \A k \in 0..order :
              /\ DOMAIN tt_pred[k] = 0..horizon
              /\ Cardinality(DOMAIN tt_pred[k]) = horizon + 1
              /\ \A j \in 0..horizon : RatEq(tt_pred[k][j], PowerOf(t + j, t, k))
              /\ RatEq(tt_pred[k][0], tt[k][t - 1])
        /\ \A c \in 1..horizon : RatLt(RatInt(1), tt_pred[1][c])
        /\ ScoreAtHorizon

\* a series of 3 steps with a trend 1 + x + x^2: the score is
\* (1 + 8/3 + 64/9 - 1) / 2
C10_Witness ==
    /\ call = "main" /\ pc = "m_done"
    /\ t = 3
    /\ phi = [k \in 0..order |-> 1]
    /\ logp_last = 1 /\ std_logp_pred = 2
    /\ RatEq(tt[2][1], Rat(4, 9))
    /\ RatEq(tt_pred[2][0], Rat(1, 1))
    /\ RatEq(tt_pred[2][5], Rat(64, 9))
    /\ RatEq(scores[1], Rat(44, 9))

----------------------------------------------------------------------------
(* C11: the gathers of the model follow the hierarchy *)

\* the index in the model m of the component called name
ComponentCalled(name) == CHOOSE i \in 1..Len(m) : m[i].name = name

Evaluated == call = "log_prob" /\ pc = "h_done"

\* the mean of row r of component `child` is row idx[r] of component `parent`
CentredOn(child, parent, idx) ==
    /\ DOMAIN priorLoc[ComponentCalled(child)] = DOMAIN idx
    /\ \A r \in DOMAIN idx : priorLoc[ComponentCalled(child)][r] = <<parent, idx[r]>>

----------------------------------------------------------------------------
(* C12: every stage starts its pair at zero *)

\* the optimisation of the current stage is about to take its first step
StageStarts == call = "train" /\ pc = "t_minimize" /\ stepsDone[stage] = 0

AllZeros == [nan |-> FALSE, v |-> 0]

----------------------------------------------------------------------------
(* C13: the ranking selected by --rank *)

\* the value passes the validation of the ranking mode
PassedValidation == call = "rank" /\ pc \notin {"k_validate", "k_raised"}

Ranked == call = "rank" /\ pc \in {"k_dont_plot", "k_done"}

\* p lists all stocks, those with a larger x first
Descending(x, p) ==
    /\ DOMAIN p = Stocks
    /\ \A s \in Stocks : \E i \in DOMAIN p : p[i] = s
    /\ \A i, j \in DOMAIN p : i < j => ~RatLt(x[p[i]], x[p[j]])

\* C13: a --rank value equal to "rate" ignoring letter case passes the
\* validation and ranks the stocks by descending score; one equal to "growth"
\* ignoring letter case passes and ranks them by descending growth; any other
\* value raises before anything is downloaded or trained.
C13_RankingNamedByArgument ==
    /\ PassedValidation => lower(args_rank) \in {str_rate, str_growth}
    /\ (Ranked /\ lower(args_rank) = str_rate) => Descending(scores, rank)
    /\ (Ranked /\ lower(args_rank) = str_growth) => Descending(growth, rank)
    /\ (call = "rank" /\ pc # "k_validate" /\ lower(args_rank) \notin {str_rate, str_growth})
          => (raised /\ pc = "k_raised" /\ ~downloaded /\ ~trained)

====
